---- MODULE Spec2Model ----
(***************************************************************************)
(* A model of the buffered StatsD client of src/client.go and              *)
(* src/options.go: the shared byte buffer and its lock, the background     *)
(* flusher with its three event sources, the emitting calls and Close.     *)
(*                                                                         *)
(* Bytes are one-character strings and a byte slice is a sequence of       *)
(* them.  A Go slice is a window (length) on a backing array; the model    *)
(* keeps the backing array of c.buffer (arr) and the length of c.buffer    *)
(* (blen) apart, because flushMetrics hands conn.Write a slice that shares *)
(* the backing array with c.buffer.                                        *)
(***************************************************************************)
EXTENDS Integers, Sequences, FiniteSets, TLC

\* ------------------------------------------------------------------ bounds

\* The emitting calls (Count, Increment, Gauge, Timing) made in one run.
MaxCalls == 2

\* The conn.Write and conn.Close calls that fail in one run.
MaxFailures == 1

\* The value given to the MaxBufferSize option.
MaxBufferSize == 9

bufferCapFactor == 2

\* The goroutines that call the client.
Callers == {"c1", "c2"}

NUL == "0x00"

\* ------------------------------------------------------- strconv, strings

Digit(d) == CASE d = 0 -> "0" [] d = 1 -> "1" [] d = 2 -> "2" [] d = 3 -> "3"
              [] d = 4 -> "4" [] d = 5 -> "5" [] d = 6 -> "6" [] d = 7 -> "7"
              [] d = 8 -> "8" [] d = 9 -> "9"

RECURSIVE Digits(_)
Digits(n) == IF n < 10 THEN <<Digit(n)>> ELSE Append(Digits(n \div 10), Digit(n % 10))

\* strconv.FormatInt(v, 10)
FormatInt(v) == IF v < 0 THEN <<"-">> \o Digits(0 - v) ELSE Digits(v)

\* strconv.FormatFloat(v, 'f', -1, 64) on the floats that are a whole number
\* of tenths; tenths is ten times the float.  The shortest representation
\* that round-trips has no fraction when the float is whole.
FormatFloat(tenths) ==
    LET m == IF tenths < 0 THEN 0 - tenths ELSE tenths
        sign == IF tenths < 0 THEN <<"-">> ELSE <<>>
    IN  sign \o Digits(m \div 10) \o (IF m % 10 = 0 THEN <<>> ELSE <<".", Digit(m % 10)>>)

\* time.Duration.Milliseconds() of a duration given in microseconds: integer
\* division truncating toward zero.
Milliseconds(micros) ==
    IF micros < 0 THEN 0 - ((0 - micros) \div 1000) ELSE micros \div 1000

\* strings.TrimSuffix(s, ".") + "."
Prefix(s) ==
    (IF Len(s) > 0 /\ s[Len(s)] = "." THEN SubSeq(s, 1, Len(s) - 1) ELSE s) \o <<".">>

\* ------------------------------------------------------------ Go slices

Nuls(n) == [i \in 1..n |-> NUL]

\* Writing bs into the backing array a right after its first n bytes.
Put(a, n, bs) ==
    [i \in 1..Len(a) |-> IF i > n /\ i <= n + Len(bs) THEN bs[i - n] ELSE a[i]]

\* The capacity of the array append allocates when newLen bytes do not fit
\* in oldCap: twice the old capacity, or what is needed if that is more.
GrowCap(oldCap, newLen) == IF newLen > 2 * oldCap THEN newLen ELSE 2 * oldCap

\* s = append(s, bs...) on the slice s = [arr, len]; moved tells that the
\* slice has left the array it started on, and seen collects the states the
\* array it started on went through.
AppendStmt(s, bs) ==
    IF s.len + Len(bs) <= Len(s.arr)
    THEN LET a == Put(s.arr, s.len, bs)
         IN  [arr |-> a, len |-> s.len + Len(bs), moved |-> s.moved,
              seen |-> IF s.moved THEN s.seen ELSE s.seen \cup {a}]
    ELSE LET n == s.len + Len(bs)
         IN  [arr |-> SubSeq(s.arr, 1, s.len) \o bs \o Nuls(GrowCap(Len(s.arr), n) - n),
              len |-> n, moved |-> TRUE, seen |-> s.seen]

\* The appends of serializeTagsTo, in order.
TagChunks(tags) ==
    LET F[i \in 0..Len(tags)] ==
            IF i = 0 THEN <<>>
            ELSE F[i - 1] \o << <<";">>, tags[i].Key, <<"=">>, tags[i].Value >>
    IN  F[Len(tags)]

\* serializeTagsTo(buffer, tags) as its caller sees it.  buffer is the
\* callee's copy of the slice header: the appends write behind the caller's
\* length while they fit in the shared array, move to an array of their own
\* when they do not, and the caller's slice keeps its length.
serializeTagsTo(s, tags) ==
    LET chunks == TagChunks(tags)
        F[i \in 0..Len(chunks)] ==
            IF i = 0 THEN [arr |-> s.arr, len |-> s.len, own |-> FALSE, seen |-> s.seen]
            ELSE LET p == F[i - 1]
                 IN  IF p.own THEN p
                     ELSE IF p.len + Len(chunks[i]) <= Len(p.arr)
                          THEN LET a == Put(p.arr, p.len, chunks[i])
                               IN  [arr |-> a, len |-> p.len + Len(chunks[i]), own |-> FALSE,
                                    seen |-> IF s.moved THEN p.seen ELSE p.seen \cup {a}]
                          ELSE [p EXCEPT !.own = TRUE]
        r == F[Len(chunks)]
    IN  [arr |-> r.arr, len |-> s.len, moved |-> s.moved, seen |-> r.seen]

\* ------------------------------------------------------------------ state

VARIABLES
    prefix,        \* c.prefix
    tags,          \* c.tags
    errorHandler,  \* whether c.errorHandler is set
    arr,           \* the backing array of c.buffer
    blen,          \* len(c.buffer)
    bufferLock,    \* "free", "bg" or the caller holding c.bufferLock
    flushChan,     \* the number of signals in c.flushChan (capacity 1)
    quitChan,      \* "open" or "closed"
    connClosed,    \* whether c.conn.Close() was called
    bg,            \* where the background flusher is
    final,         \* whether the flusher is in the quitChan case
    data,          \* the slice flushMetrics is about to write
    pc,            \* where each caller is
    arg,           \* the arguments of the send a caller is in
    \* history
    ncalls,        \* emitting calls made so far
    nzero,         \* Count calls with value 0 made so far
    appended,      \* the completed sends, in buffer order
    drained,       \* how many of them have been drained from the buffer
    writes,        \* the conn.Write calls, in order
    nfailed,       \* the conn.Write and conn.Close calls that failed
    nhandled,      \* the errorHandler calls
    quiet,         \* no tick, no send that left the buffer at maxBufferSize, no Close so far
    ncloses,       \* the Close calls made so far
    closeReturns,  \* the Close calls that have returned
    finalFlushes   \* how often the quitChan case has called flushMetrics

vars == <<prefix, tags, errorHandler, arr, blen, bufferLock, flushChan, quitChan,
          connClosed, bg, final, data, pc, arg, ncalls, nzero, appended, drained,
          writes, nfailed, nhandled, quiet, ncloses, closeReturns, finalFlushes>>

config == <<prefix, tags, errorHandler>>
history == <<ncalls, nzero, appended, drained, writes, nfailed, nhandled, quiet,
             ncloses, closeReturns, finalFlushes>>

NoData == [len |-> 0, shared |-> FALSE, views |-> {}, snap |-> <<>>]
NoArg == [key |-> <<>>, value |-> <<>>, mt |-> <<>>, tags |-> <<>>]

\* c.buffer
buffer == SubSeq(arr, 1, blen)

\* ------------------------------------------------------------------ inputs

Tag(k, v) == [Key |-> k, Value |-> v]

\* The options given to New.
DefaultTags == << Tag(<<"e">>, <<"p">>) >>
PrefixGiven == <<"p">>

\* The arguments of the emitting calls.
Key == <<"a">>
TagLists == {<<>>, << Tag(<<"k">>, <<"v">>) >>}
CountValues == {0, 1}
GaugeValues == {15}
Durations == {250499}

\* ------------------------------------------------------------------- New

\* c.tags after New: a slice of length 0 handed to serializeTagsTo.
NewTags(optTags) ==
    LET s == serializeTagsTo([arr |-> Nuls(MaxBufferSize), len |-> 0,
                              moved |-> FALSE, seen |-> {}], optTags)
    IN  SubSeq(s.arr, 1, s.len)

Init ==
    /\ prefix = Prefix(PrefixGiven)
    /\ tags = NewTags(DefaultTags)
    /\ errorHandler \in BOOLEAN
    /\ arr = Nuls(MaxBufferSize * bufferCapFactor)
    /\ blen = 0
    /\ bufferLock = "free"
    /\ flushChan = 0
    /\ quitChan = "open"
    /\ connClosed = FALSE
    /\ bg = "select"
    /\ final = FALSE
    /\ data = NoData
    /\ pc = [t \in Callers |-> "idle"]
    /\ arg = [t \in Callers |-> NoArg]
    /\ ncalls = 0
    /\ nzero = 0
    /\ appended = <<>>
    /\ drained = 0
    /\ writes = <<>>
    /\ nfailed = 0
    /\ nhandled = 0
    /\ quiet = TRUE
    /\ ncloses = 0
    /\ closeReturns = 0
    /\ finalFlushes = 0

\* The outcomes of a conn.Write or conn.Close call: TRUE is a nil error.
Outcomes == IF nfailed < MaxFailures THEN {TRUE, FALSE} ELSE {TRUE}

\* Report with the handler called after every call, failed or not.
ReportAlways(ok) ==
    /\ nfailed' = IF ok THEN nfailed ELSE nfailed + 1
    /\ nhandled' = IF errorHandler THEN nhandled + 1 ELSE nhandled

\* if err != nil && c.errorHandler != nil { c.errorHandler(err) }
Report(ok) ==
    /\ nfailed' = IF ok THEN nfailed ELSE nfailed + 1
    /\ nhandled' = IF ~ok /\ errorHandler THEN nhandled + 1 ELSE nhandled

\* ------------------------------------------------------- the flusher

\* requestFlush on a channel that queues every request.
requestFlushQueued(ch) == ch + 1

\* requestFlush: a send on flushChan that is dropped when the slot is taken.
requestFlush(ch) == IF ch = 0 THEN 1 ELSE ch

\* Tick with the tick received and nothing requested.
TickNoRequest ==
    /\ bg = "select"
    /\ quiet' = FALSE
    /\ UNCHANGED <<config, arr, blen, bufferLock, flushChan, quitChan, connClosed, bg,
                   final, data, pc, arg, ncalls, nzero, appended, drained, writes,
                   nfailed, nhandled, ncloses, closeReturns, finalFlushes>>

\* case <-ticker.C
Tick ==
    /\ bg = "select"
    /\ flushChan' = requestFlush(flushChan)
    /\ quiet' = FALSE
    /\ UNCHANGED <<config, arr, blen, bufferLock, quitChan, connClosed, bg, final, data,
                   pc, arg, ncalls, nzero, appended, drained, writes, nfailed, nhandled,
                   ncloses, closeReturns, finalFlushes>>

\* case <-c.flushChan
RecvFlush ==
    /\ bg = "select"
    /\ flushChan > 0
    /\ flushChan' = flushChan - 1
    /\ bg' = "flush"
    /\ final' = FALSE
    /\ UNCHANGED <<config, arr, blen, bufferLock, quitChan, connClosed, data, pc, arg,
                   history>>

\* RecvQuit without the return after the final flush: the loop goes on.
RecvQuitNoReturn ==
    /\ bg = "select"
    /\ quitChan = "closed"
    /\ bg' = "flush"
    /\ final' = FALSE
    /\ finalFlushes' = finalFlushes + 1
    /\ UNCHANGED <<config, arr, blen, bufferLock, flushChan, quitChan, connClosed, data,
                   pc, arg, ncalls, nzero, appended, drained, writes, nfailed, nhandled,
                   quiet, ncloses, closeReturns>>

\* case <-c.quitChan
RecvQuit ==
    /\ bg = "select"
    /\ quitChan = "closed"
    /\ bg' = "flush"
    /\ final' = TRUE
    /\ finalFlushes' = finalFlushes + 1
    /\ UNCHANGED <<config, arr, blen, bufferLock, flushChan, quitChan, connClosed, data,
                   pc, arg, ncalls, nzero, appended, drained, writes, nfailed, nhandled,
                   quiet, ncloses, closeReturns>>

\* flushMetrics: c.bufferLock.Lock()
FlushLock ==
    /\ bg = "flush"
    /\ bufferLock = "free"
    /\ bufferLock' = "bg"
    /\ bg' = "locked"
    /\ UNCHANGED <<config, arr, blen, flushChan, quitChan, connClosed, final, data, pc,
                   arg, history>>

\* FlushDrain with the Unlock of the non-empty path left for after the Write.
FlushDrainHoldingLock ==
    /\ bg = "locked"
    /\ IF blen = 0
       THEN /\ bg' = IF final THEN "done" ELSE "select"
            /\ bufferLock' = "free"
            /\ UNCHANGED <<blen, data, drained>>
       ELSE /\ data' = [len |-> blen - 1, shared |-> TRUE,
                        views |-> {SubSeq(arr, 1, blen - 1)},
                        snap |-> SubSeq(arr, 1, blen - 1)]
            /\ blen' = 0
            /\ drained' = Len(appended)
            /\ bg' = "write"
            /\ bufferLock' = "bg"
    /\ UNCHANGED <<config, arr, flushChan, quitChan, connClosed, final, pc, arg, ncalls,
                   nzero, appended, writes, nfailed, nhandled, quiet, ncloses,
                   closeReturns, finalFlushes>>

\* FlushDrain without the return on an empty buffer: the write is issued with
\* whatever was captured, nothing included.
FlushDrainNoEmptyCheck ==
    /\ bg = "locked"
    /\ bufferLock' = "free"
    /\ LET n == IF blen = 0 THEN 0 ELSE blen - 1
       IN  data' = [len |-> n, shared |-> TRUE, views |-> {SubSeq(arr, 1, n)},
                    snap |-> SubSeq(arr, 1, n)]
    /\ blen' = 0
    /\ drained' = Len(appended)
    /\ bg' = "write"
    /\ UNCHANGED <<config, arr, flushChan, quitChan, connClosed, final, pc, arg, ncalls,
                   nzero, appended, writes, nfailed, nhandled, quiet, ncloses,
                   closeReturns, finalFlushes>>

\* flushMetrics from n := len(c.buffer) to the Unlock on either path.
FlushDrain ==
    /\ bg = "locked"
    /\ bufferLock' = "free"
    /\ IF blen = 0
       THEN /\ bg' = IF final THEN "done" ELSE "select"
            /\ UNCHANGED <<blen, data, drained>>
       ELSE /\ data' = [len |-> blen - 1, shared |-> TRUE,
                        views |-> {SubSeq(arr, 1, blen - 1)},
                        snap |-> SubSeq(arr, 1, blen - 1)]
            /\ blen' = 0
            /\ drained' = Len(appended)
            /\ bg' = "write"
    /\ UNCHANGED <<config, arr, flushChan, quitChan, connClosed, final, pc, arg, ncalls,
                   nzero, appended, writes, nfailed, nhandled, quiet, ncloses,
                   closeReturns, finalFlushes>>

\* flushMetrics: c.conn.Write(data) and the call of the error handler.  The
\* bytes Write reads are those of the array data points into when it reads
\* them: any of the states that array went through since the drain.
Write ==
    /\ bg = "write"
    /\ \E ok \in Outcomes, payload \in data.views :
          /\ writes' = Append(writes, [payload |-> payload, snap |-> data.snap])
          /\ Report(ok)
    /\ data' = NoData
    /\ bg' = IF final THEN "done" ELSE "select"
    /\ UNCHANGED <<config, arr, blen, bufferLock, flushChan, quitChan, connClosed, final,
                   pc, arg, ncalls, nzero, appended, drained, quiet, ncloses,
                   closeReturns, finalFlushes>>

\* ------------------------------------------------------- the callers

\* send(key, value, mt, tags...) through c.bufferLock.Lock(): the caller
\* gets past it when the lock is free.
send(t, key, value, mt, tgs) ==
    /\ bufferLock = "free"
    /\ bufferLock' = t
    /\ pc' = [pc EXCEPT ![t] = "locked"]
    /\ arg' = [arg EXCEPT ![t] = [key |-> key, value |-> value, mt |-> mt, tags |-> tgs]]

\* Count without the return on a zero value.
CountNoZeroCheck(t) ==
    /\ pc[t] = "idle"
    /\ ncalls < MaxCalls
    /\ ncalls' = ncalls + 1
    /\ \E v \in CountValues :
          /\ nzero' = IF v = 0 THEN nzero + 1 ELSE nzero
          /\ send(t, Key, FormatInt(v), <<"c">>, <<>>)
    /\ UNCHANGED <<config, arr, blen, flushChan, quitChan, connClosed, bg,
                   final, data, appended, drained, writes, nfailed, nhandled,
                   quiet, ncloses, closeReturns, finalFlushes>>

\* Count(key, value, tags...)
Count(t) ==
    /\ pc[t] = "idle"
    /\ ncalls < MaxCalls
    /\ ncalls' = ncalls + 1
    /\ \E v \in CountValues :
          /\ nzero' = IF v = 0 THEN nzero + 1 ELSE nzero
          /\ IF v = 0
             THEN UNCHANGED <<pc, arg, bufferLock>>
             ELSE send(t, Key, FormatInt(v), <<"c">>, <<>>)
    /\ UNCHANGED <<config, arr, blen, flushChan, quitChan, connClosed, bg,
                   final, data, appended, drained, writes, nfailed, nhandled,
                   quiet, ncloses, closeReturns, finalFlushes>>

\* Increment(key, tags...): c.Count(key, 1, tags...)
Increment(t) ==
    /\ pc[t] = "idle"
    /\ ncalls < MaxCalls
    /\ ncalls' = ncalls + 1
    /\ \E tg \in TagLists : send(t, Key, FormatInt(1), <<"c">>, tg)
    /\ UNCHANGED <<config, arr, blen, flushChan, quitChan, connClosed, bg,
                   final, data, nzero, appended, drained, writes, nfailed, nhandled,
                   quiet, ncloses, closeReturns, finalFlushes>>

\* Gauge(key, value, tags...)
Gauge(t) ==
    /\ pc[t] = "idle"
    /\ ncalls < MaxCalls
    /\ ncalls' = ncalls + 1
    /\ \E v \in GaugeValues : send(t, Key, FormatFloat(v), <<"g">>, <<>>)
    /\ UNCHANGED <<config, arr, blen, flushChan, quitChan, connClosed, bg,
                   final, data, nzero, appended, drained, writes, nfailed, nhandled,
                   quiet, ncloses, closeReturns, finalFlushes>>

\* Timing(key, duration, tags...)
Timing(t) ==
    /\ pc[t] = "idle"
    /\ ncalls < MaxCalls
    /\ ncalls' = ncalls + 1
    /\ \E d \in Durations : send(t, Key, FormatInt(Milliseconds(d)), <<"m", "s">>, <<>>)
    /\ UNCHANGED <<config, arr, blen, flushChan, quitChan, connClosed, bg,
                   final, data, nzero, appended, drained, writes, nfailed, nhandled,
                   quiet, ncloses, closeReturns, finalFlushes>>

\* SendAppends without the append of the line terminator.
SendAppendsNoTerminator(s, a, pfx, tgs) ==
    LET s1 == AppendStmt(s, pfx)
        s2 == AppendStmt(s1, a.key)
        s3 == AppendStmt(s2, <<":">>)
        s4 == AppendStmt(s3, a.value)
        s5 == AppendStmt(s4, tgs)
        s6 == serializeTagsTo(s5, a.tags)
        s7 == AppendStmt(s6, <<"|">>)
    IN  AppendStmt(s7, a.mt)

\* The appends of send, lines 136 to 144, on the slice s.
SendAppends(s, a, pfx, tgs) ==
    LET s1 == AppendStmt(s, pfx)
        s2 == AppendStmt(s1, a.key)
        s3 == AppendStmt(s2, <<":">>)
        s4 == AppendStmt(s3, a.value)
        s5 == AppendStmt(s4, tgs)
        s6 == serializeTagsTo(s5, a.tags)
        s7 == AppendStmt(s6, <<"|">>)
        s8 == AppendStmt(s7, a.mt)
    IN  AppendStmt(s8, <<"\n">>)

\* BufferFull asking for a flush after every send.
BufferFullAlways(n, max) == n > 0

\* BufferFull comparing with the capacity the buffer was made with.
BufferFullAtCap(n, max) == n >= max * bufferCapFactor

\* Whether send requests a flush.
BufferFull(n, max) == n >= max

\* SendBody with the caller flushing a full buffer itself: it takes the
\* buffer and writes it to the connection instead of asking the flusher.
SendBodyFlushesItself(t) ==
    /\ pc[t] = "locked"
    /\ LET s == SendAppends([arr |-> arr, len |-> blen, moved |-> FALSE, seen |-> {}],
                            arg[t], prefix, tags)
           full == BufferFull(s.len, MaxBufferSize)
       IN  /\ arr' = s.arr
           /\ blen' = IF full THEN 0 ELSE s.len
           /\ quiet' = (quiet /\ s.len < MaxBufferSize)
           /\ appended' = Append(appended, [line |-> SubSeq(s.arr, blen + 1, s.len),
                                            pre |-> quitChan = "open"])
           /\ drained' = IF full THEN Len(appended) + 1 ELSE drained
           /\ writes' = IF full
                        THEN Append(writes, [payload |-> SubSeq(s.arr, 1, s.len - 1),
                                             snap |-> SubSeq(s.arr, 1, s.len - 1)])
                        ELSE writes
           /\ data' = IF bg = "write" /\ data.shared
                      THEN [data EXCEPT !.shared = ~s.moved,
                                        !.views = @ \cup {SubSeq(x, 1, data.len) : x \in s.seen}]
                      ELSE data
    /\ bufferLock' = "free"
    /\ pc' = [pc EXCEPT ![t] = "idle"]
    /\ arg' = [arg EXCEPT ![t] = NoArg]
    /\ UNCHANGED <<config, flushChan, quitChan, connClosed, bg, final, ncalls, nzero,
                   nfailed, nhandled, ncloses, closeReturns, finalFlushes>>

\* SendBody with a full buffer written by the caller when its request finds
\* the slot taken.
SendBodyFlushesWhenPending(t) ==
    /\ pc[t] = "locked"
    /\ LET s == SendAppends([arr |-> arr, len |-> blen, moved |-> FALSE, seen |-> {}],
                            arg[t], prefix, tags)
           full == BufferFull(s.len, MaxBufferSize)
           self == full /\ flushChan = 1
       IN  /\ arr' = s.arr
           /\ blen' = IF self THEN 0 ELSE s.len
           /\ flushChan' = IF full THEN requestFlush(flushChan) ELSE flushChan
           /\ quiet' = (quiet /\ s.len < MaxBufferSize)
           /\ appended' = Append(appended, [line |-> SubSeq(s.arr, blen + 1, s.len),
                                            pre |-> quitChan = "open"])
           /\ drained' = IF self THEN Len(appended) + 1 ELSE drained
           /\ writes' = IF self
                        THEN Append(writes, [payload |-> SubSeq(s.arr, 1, s.len - 1),
                                             snap |-> SubSeq(s.arr, 1, s.len - 1)])
                        ELSE writes
           /\ data' = IF bg = "write" /\ data.shared
                      THEN [data EXCEPT !.shared = ~s.moved,
                                        !.views = @ \cup {SubSeq(x, 1, data.len) : x \in s.seen}]
                      ELSE data
    /\ bufferLock' = "free"
    /\ pc' = [pc EXCEPT ![t] = "idle"]
    /\ arg' = [arg EXCEPT ![t] = NoArg]
    /\ UNCHANGED <<config, quitChan, connClosed, bg, final, ncalls, nzero, nfailed,
                   nhandled, ncloses, closeReturns, finalFlushes>>

\* send from its first append to the deferred Unlock.
SendBody(t) ==
    /\ pc[t] = "locked"
    /\ LET s == SendAppends([arr |-> arr, len |-> blen, moved |-> FALSE, seen |-> {}],
                            arg[t], prefix, tags)
           full == BufferFull(s.len, MaxBufferSize)
       IN  /\ arr' = s.arr
           /\ blen' = s.len
           /\ flushChan' = IF full THEN requestFlush(flushChan) ELSE flushChan
           /\ quiet' = (quiet /\ s.len < MaxBufferSize)
           /\ appended' = Append(appended, [line |-> SubSeq(s.arr, blen + 1, s.len),
                                            pre |-> quitChan = "open"])
           /\ data' = IF bg = "write" /\ data.shared
                      THEN [data EXCEPT !.shared = ~s.moved,
                                        !.views = @ \cup {SubSeq(x, 1, data.len) : x \in s.seen}]
                      ELSE data
    /\ bufferLock' = "free"
    /\ pc' = [pc EXCEPT ![t] = "idle"]
    /\ arg' = [arg EXCEPT ![t] = NoArg]
    /\ UNCHANGED <<config, quitChan, connClosed, bg, final, ncalls, nzero, drained,
                   writes, nfailed, nhandled, ncloses, closeReturns,
                   finalFlushes>>

\* Close returning at once, as if done, when quitChan is closed already.
CloseIdempotent(t) ==
    /\ pc[t] = "idle"
    /\ ncloses' = ncloses + 1
    /\ quiet' = FALSE
    /\ IF quitChan = "closed"
       THEN /\ closeReturns' = closeReturns + 1
            /\ UNCHANGED <<pc, quitChan>>
       ELSE /\ quitChan' = "closed"
            /\ pc' = [pc EXCEPT ![t] = "wait"]
            /\ UNCHANGED closeReturns
    /\ UNCHANGED <<config, arr, blen, bufferLock, flushChan, connClosed, bg, final, data,
                   arg, ncalls, nzero, appended, drained, writes, nfailed, nhandled,
                   finalFlushes>>

\* Close: close(c.quitChan), which panics on a closed channel.
Close(t) ==
    /\ pc[t] = "idle"
    /\ ncloses' = ncloses + 1
    /\ quiet' = FALSE
    /\ IF quitChan = "closed"
       THEN /\ pc' = [pc EXCEPT ![t] = "panicked"]
            /\ UNCHANGED quitChan
       ELSE /\ quitChan' = "closed"
            /\ pc' = [pc EXCEPT ![t] = "wait"]
    /\ UNCHANGED <<config, arr, blen, bufferLock, flushChan, connClosed, bg, final, data,
                   arg, ncalls, nzero, appended, drained, writes, nfailed, nhandled,
                   closeReturns, finalFlushes>>

\* CloseReturn without c.wg.Wait().
CloseReturnNoWait(t) ==
    /\ pc[t] = "wait"
    /\ connClosed' = TRUE
    /\ \E ok \in Outcomes : Report(ok)
    /\ pc' = [pc EXCEPT ![t] = "idle"]
    /\ closeReturns' = closeReturns + 1
    /\ UNCHANGED <<config, arr, blen, bufferLock, flushChan, quitChan, bg, final, data,
                   arg, ncalls, nzero, appended, drained, writes, quiet, ncloses,
                   finalFlushes>>

\* CloseReturn with the error of c.conn.Close() dropped.
CloseReturnNoReport(t) ==
    /\ pc[t] = "wait"
    /\ bg = "done"
    /\ connClosed' = TRUE
    /\ \E ok \in Outcomes : nfailed' = IF ok THEN nfailed ELSE nfailed + 1
    /\ pc' = [pc EXCEPT ![t] = "idle"]
    /\ closeReturns' = closeReturns + 1
    /\ UNCHANGED <<config, arr, blen, bufferLock, flushChan, quitChan, bg, final, data,
                   arg, ncalls, nzero, appended, drained, writes, nhandled, quiet,
                   ncloses, finalFlushes>>

\* Close from the return of c.wg.Wait() on: c.conn.Close(), the error handler.
CloseReturn(t) ==
    /\ pc[t] = "wait"
    /\ bg = "done"
    /\ connClosed' = TRUE
    /\ \E ok \in Outcomes : Report(ok)
    /\ pc' = [pc EXCEPT ![t] = "idle"]
    /\ closeReturns' = closeReturns + 1
    /\ UNCHANGED <<config, arr, blen, bufferLock, flushChan, quitChan, bg, final, data,
                   arg, ncalls, nzero, appended, drained, writes, quiet,
                   ncloses, finalFlushes>>

Next ==
    \/ Tick
    \/ RecvFlush
    \/ RecvQuit
    \/ FlushLock
    \/ FlushDrain
    \/ Write
    \/ \E t \in Callers : Count(t)
    \/ \E t \in Callers : Increment(t)
    \/ \E t \in Callers : Gauge(t)
    \/ \E t \in Callers : Timing(t)
    \/ \E t \in Callers : SendBody(t)
    \/ \E t \in Callers : Close(t)
    \/ \E t \in Callers : CloseReturn(t)

Spec == Init /\ [][Next]_vars

\* The client while it runs: no Close is called.  The flusher's steps other
\* than the tick get the scheduling the Go runtime gives: a goroutine that can
\* run does, and a caller in send, which is enabled whenever it holds the
\* lock, goes on to its Unlock.  The ticker may fire or not.
Flusher == RecvFlush \/ FlushLock \/ FlushDrain \/ Write

Running ==
    \/ Tick
    \/ RecvFlush
    \/ FlushLock
    \/ FlushDrain
    \/ Write
    \/ \E t \in Callers : Count(t)
    \/ \E t \in Callers : Increment(t)
    \/ \E t \in Callers : Gauge(t)
    \/ \E t \in Callers : Timing(t)
    \/ \E t \in Callers : SendBody(t)

RunningSpec ==
    /\ Init
    /\ [][Running]_vars
    /\ WF_vars(Flusher)
    /\ \A t \in Callers : []<>(pc[t] # "locked")

\* The client whose callers emit counters and gauges, and call Close.
Closing ==
    \/ Tick
    \/ RecvFlush
    \/ RecvQuit
    \/ FlushLock
    \/ FlushDrain
    \/ Write
    \/ \E t \in Callers : Count(t)
    \/ \E t \in Callers : Gauge(t)
    \/ \E t \in Callers : SendBody(t)
    \/ \E t \in Callers : Close(t)
    \/ \E t \in Callers : CloseReturn(t)

\* That client with the scheduling the Go runtime gives: the flusher's steps
\* are taken when they can be; a select whose quitChan case is ready again and
\* again takes it in the end, the choice among ready cases being random; a
\* caller in send goes on to its Unlock; and a Close whose c.wg.Wait() can
\* return does return.
ClosingSpec ==
    /\ Init
    /\ [][Closing]_vars
    /\ WF_vars(Flusher)
    /\ SF_vars(RecvQuit)
    /\ \A t \in Callers : []<>(pc[t] # "locked")
    /\ \A t \in Callers : WF_vars(CloseReturn(t))

\* The client with one goroutine, c1, making all the emitting calls, one after
\* the other; any goroutine may call Close.
Solo ==
    \/ Tick
    \/ RecvFlush
    \/ RecvQuit
    \/ FlushLock
    \/ FlushDrain
    \/ Write
    \/ Count("c1")
    \/ Increment("c1")
    \/ Gauge("c1")
    \/ Timing("c1")
    \/ SendBody("c1")
    \/ \E t \in Callers : Close(t)
    \/ \E t \in Callers : CloseReturn(t)

SoloSpec == Init /\ [][Solo]_vars

\* ---------------------------------------------------- reading the history

\* s cut at the "\n" bytes.
Split(s) ==
    LET F[i \in 0..Len(s)] ==
            IF i = 0 THEN << <<>> >>
            ELSE LET p == F[i - 1]
                 IN  IF s[i] = "\n" THEN Append(p, <<>>)
                     ELSE [p EXCEPT ![Len(p)] = Append(@, s[i])]
    IN  F[Len(s)]

\* A buffered line without its terminator.
Strip(line) == SubSeq(line, 1, Len(line) - 1)

\* The lines of all payloads written so far, in order.
WrittenLines ==
    LET F[i \in 0..Len(writes)] ==
            IF i = 0 THEN <<>> ELSE F[i - 1] \o Split(writes[i].payload)
    IN  F[Len(writes)]

\* How many lines a payload or a drained batch holds: its last line has no
\* terminator.
NLines(s) == Cardinality({k \in 1..Len(s) : s[k] = "\n"}) + 1

\* How many lines the drains of the first i writes took from the buffer.
DrainedBy(i) ==
    LET F[j \in 0..i] == IF j = 0 THEN 0 ELSE F[j - 1] + NLines(writes[j].snap)
    IN  F[i]

\* The lines appended[lo..hi], as they lie in the buffer.
Lines(lo, hi) ==
    LET F[j \in (lo - 1)..hi] == IF j < lo THEN <<>> ELSE F[j - 1] \o appended[j].line
    IN  IF hi < lo THEN <<>> ELSE F[hi]

Occurs(seq, x) == Cardinality({i \in 1..Len(seq) : seq[i] = x})

Panicked == {t \in Callers : pc[t] = "panicked"}
Waiting == {t \in Callers : pc[t] = "wait"}

\* ------------------------------------------------------------- the claims

\* The lines of the sends that completed before Close was called, and of all
\* sends, without their terminators.
PreLines == [i \in 1..Len(SelectSeq(appended, LAMBDA r : r.pre)) |->
                Strip(SelectSeq(appended, LAMBDA r : r.pre)[i].line)]
AllLines == [i \in 1..Len(appended) |-> Strip(appended[i].line)]

\* C1: once Close has returned, every line whose send completed before Close
\* was called has been handed to the transport exactly once and unaltered:
\* it is among the lines written at least as often as it was appended before
\* Close, and no more often than it was appended at all.
C1_ExactlyOnce ==
    closeReturns > 0 =>
        \A i \in 1..Len(PreLines) :
            /\ Occurs(PreLines, PreLines[i]) <= Occurs(WrittenLines, PreLines[i])
            /\ Occurs(WrittenLines, PreLines[i]) <= Occurs(AllLines, PreLines[i])

\* C2: every line of every payload written is, byte for byte, a line one
\* emitting call appended before the drain of that write.
C2_WholeLines ==
    \A i \in 1..Len(writes) :
        \A k \in 1..Len(Split(writes[i].payload)) :
            \E j \in 1..DrainedBy(i) : AllLines[j] = Split(writes[i].payload)[k]

\* C3: the quitChan case runs flushMetrics at most once, and when Close has
\* returned the flusher has ended after running it exactly once, every line
\* appended before Close was called has been drained, and every drained batch,
\* the final one included, has been given to conn.Write.
C3_FinalFlush ==
    /\ finalFlushes <= 1
    /\ closeReturns > 0 =>
          /\ bg = "done"
          /\ finalFlushes = 1
          /\ drained >= Len(PreLines)
          /\ DrainedBy(Len(writes)) = drained

\* C3 witness: Close waits while the final flush, which drained lines appended
\* before Close was called, is in conn.Write.
C3_Witness ==
    /\ Waiting # {}
    /\ bg = "write"
    /\ final
    /\ Len(PreLines) > 0
    /\ drained = Len(appended)

\* C4: of the Close calls made, all but the first have panicked; no second
\* Close waits for the flusher or returns, and the quitChan case runs at most
\* one final flush.
C4_SecondClosePanics ==
    /\ ncloses >= 1 => Cardinality(Panicked) = ncloses - 1
    /\ Cardinality(Waiting) + closeReturns <= 1
    /\ finalFlushes <= 1

\* C4 witness: a second Close has panicked while the first is still waiting
\* for the flusher, and a third after the first has returned.
C4_Witness ==
    \/ /\ Cardinality(Waiting) = 1
       /\ Cardinality(Panicked) = 1
    \/ /\ closeReturns = 1
       /\ Cardinality(Panicked) = 2

\* The wire form of a tag list: ;key=value for each tag, in order.
Render(tgs) ==
    LET F[i \in 0..Len(tgs)] ==
            IF i = 0 THEN <<>>
            ELSE F[i - 1] \o <<";">> \o tgs[i].Key \o <<"=">> \o tgs[i].Value
    IN  F[Len(tgs)]

\* C5: the line a send appends is
\* <prefix><name>:<value><default-tags><call-tags>|<type>\n, the default tags
\* being those given to New.
C5_LineFormat ==
    [][\A t \in Callers :
          (pc[t] = "locked" /\ pc'[t] = "idle") =>
              SubSeq(arr', blen + 1, blen') =
                  prefix \o arg[t].key \o <<":">> \o arg[t].value \o Render(DefaultTags)
                      \o Render(arg[t].tags) \o <<"|">> \o arg[t].mt \o <<"\n">>]_vars

\* C6: as long as no tick has fired, Close has not been called and every send
\* has left the buffer shorter than maxBufferSize, nothing has been drained or
\* written, no flush request is pending and the flusher has not left its select.
C6_NoFlushBelowThreshold ==
    quiet =>
        /\ writes = <<>>
        /\ drained = 0
        /\ flushChan = 0
        /\ bg = "select"

\* C6 witness: sends have completed below the threshold and nothing was flushed.
C6_Witness ==
    /\ quiet
    /\ Len(appended) >= 1
    /\ blen = Len(Lines(1, Len(appended)))

\* C7: while Close has not been called, a buffer at or above maxBufferSize has
\* a flush request pending or the flusher already in flushMetrics ahead of its
\* drain; and with no tick required to fire, the flusher goes on to drain
\* every line such a buffer holds.
C7_SizeFlush ==
    /\ [](quitChan = "open" /\ blen >= MaxBufferSize
             => flushChan = 1 \/ bg \in {"flush", "locked"})
    /\ (quitChan = "open" /\ blen >= MaxBufferSize)
           ~> (blen = 0 /\ drained = Len(appended))

\* C7 witness: a send has left the buffer at the threshold and its request is
\* pending while the flusher waits in its select.
C7_Witness ==
    /\ quitChan = "open"
    /\ blen >= MaxBufferSize
    /\ flushChan = 1
    /\ bg = "select"

\* C8: a Count call with value 0 leaves the buffer, the lock, the flush slot,
\* the caller and the flusher as they were, and nothing is written.
C8_CountZeroNoOp ==
    [][nzero' # nzero =>
          UNCHANGED <<arr, blen, bufferLock, flushChan, pc, arg, bg, data, appended,
                      drained, writes>>]_vars

\* C8 witness: Count was called with 0 and the buffer holds lines.
C8_Witness ==
    /\ nzero > 0
    /\ blen > 0

\* C9: the flusher does not hold the buffer lock while it is in conn.Write; it
\* holds it only between the Lock and the Unlock of flushMetrics.
C9_NoWriteUnderLock ==
    /\ bg = "write" => bufferLock # "bg"
    /\ bufferLock = "bg" <=> bg = "locked"

\* C9 witness: a send has taken the lock and completed since the drain, the
\* flusher being in conn.Write still.
C9_Witness ==
    /\ bg = "write"
    /\ Len(appended) > drained

\* C10: the error handler has been called once for each failed call if it is
\* set and never if it is not; the buffer holds exactly the lines appended
\* after the last drain; every drained batch is given to conn.Write once; and
\* the step on which a Write fails leaves the buffer and the flush slot alone
\* and takes the flusher back to its select (or to its end, on the final
\* flush).
C10_WriteFailure ==
    /\ [](nhandled = IF errorHandler THEN nfailed ELSE 0)
    /\ [](buffer = Lines(drained + 1, Len(appended)))
    /\ [](DrainedBy(Len(writes)) + (IF bg = "write" THEN NLines(data.snap) ELSE 0)
             = drained)
    /\ [][(bg = "write" /\ nfailed' > nfailed) =>
             /\ bg' = IF final THEN "done" ELSE "select"
             /\ Len(writes') = Len(writes) + 1
             /\ UNCHANGED <<arr, blen, flushChan>>]_vars

\* C10 witness: a Write has failed, the handler was called once, and the
\* flusher is in flushMetrics again for a later event, lines in the buffer.
C10_Witness ==
    /\ nfailed = 1
    /\ ~connClosed
    /\ errorHandler
    /\ nhandled = 1
    /\ bg = "locked"
    /\ blen > 0

\* C11: the lines of one caller's calls reach the transport in call order:
\* wherever the line of a later call stands in the data written, the line of
\* each earlier call stands before it, in an earlier write or earlier in the
\* same write.  (Lines are told apart by their bytes: a later line is one
\* whose bytes no earlier call appended.)
C11_CallOrder ==
    \A j \in 1..Len(appended) :
        (\A k \in 1..(j - 1) : AllLines[k] # AllLines[j]) =>
            \A q \in 1..Len(WrittenLines) :
                WrittenLines[q] = AllLines[j] =>
                    \A i \in 1..(j - 1) :
                        \E p \in 1..(q - 1) : WrittenLines[p] = AllLines[i]

\* C12: a drain of a non-empty buffer captures the lines the buffer held,
\* without the last terminator, and leaves in the buffer only what is appended
\* after it; and the bytes each conn.Write was given are the bytes its drain
\* captured, whatever was appended between the Unlock and the Write.
C12_CapturedBytes ==
    /\ bg = "write" =>
          /\ data.snap = Strip(Lines(drained - NLines(data.snap) + 1, drained))
          /\ buffer = Lines(drained + 1, Len(appended))
    /\ \A i \in 1..Len(writes) : writes[i].payload = writes[i].snap

\* C13: flushMetrics on an empty buffer unlocks and returns to the select loop
\* (or ends the flusher, on the final flush) without a conn.Write: the step
\* changes neither the writes made nor the slice to write, and no conn.Write
\* is ever given an empty payload.
C13_NoEmptyWrite ==
    /\ [](\A i \in 1..Len(writes) :
             Len(writes[i].payload) > 0 /\ Len(writes[i].snap) > 0)
    /\ [](bg = "write" => data.len > 0)
    /\ [][(bg = "locked" /\ bg' # bg /\ blen = 0) =>
             /\ bufferLock' = "free"
             /\ bg' = IF final THEN "done" ELSE "select"
             /\ UNCHANGED <<writes, data, drained, arr, blen>>]_vars

\* C13 witness: the flusher has ended after a final flush that found the
\* buffer empty, and no write was made.
C13_Witness ==
    /\ bg = "done"
    /\ finalFlushes = 1
    /\ writes = <<>>
    /\ blen = 0
    /\ closeReturns = 1

\* C14 as stated: the flusher handles a tick as it handles a flushChan
\* receive, by going into flushMetrics; so a tick on a non-empty buffer is
\* followed by the drain before the flusher is at its select again.
C14_TickFlushes ==
    [][(Tick /\ blen > 0) => bg' = "flush"]_vars

\* C14 amended: the flusher handles a tick by requestFlush alone: the slot is
\* full after it, the flusher is at its select again, and buffer, lock and
\* writes are as they were.  The drain comes with the flushChan receive that
\* follows: while the client runs, a pending request on a non-empty buffer
\* leads to the drain of all lines appended so far, and the drained batch to a
\* conn.Write.
C14_TickRequests ==
    /\ [][Tick => /\ flushChan' = 1
                  /\ bg' = "select"
                  /\ UNCHANGED <<arr, blen, bufferLock, data, drained, writes>>]_vars
    /\ (flushChan = 1 /\ bg = "select" /\ blen > 0)
           ~> (bg = "write" /\ blen = 0 /\ drained = Len(appended))
    /\ (bg = "write") ~> (bg = "select" /\ DrainedBy(Len(writes)) = drained)

\* C14 witness: a tick has left a request pending on a buffer that no send
\* has taken to maxBufferSize, the flusher at its select.
C14_Witness ==
    /\ flushChan = 1
    /\ bg = "select"
    /\ blen > 0
    /\ blen < MaxBufferSize
    /\ drained = 0

\* C15: the buffer is drained and conn.Write is called by the flusher alone,
\* one flush at a time: the step that adds a write is the flusher leaving
\* conn.Write, with no caller moving; the step that drains is the flusher's,
\* holding the lock; a flush, for a flushChan receive or for the quitChan
\* case, starts only from the select, where no flush is in progress; and a
\* slice waits to be written only while the flusher is in conn.Write.
C15_SingleFlusher ==
    /\ [][writes' # writes =>
             /\ bg = "write" /\ bg' \in {"select", "done"}
             /\ Len(writes') = Len(writes) + 1
             /\ pc' = pc]_vars
    /\ [][(drained' # drained \/ blen' < blen) =>
             /\ bg = "locked" /\ bufferLock = "bg" /\ bg' = "write"
             /\ pc' = pc]_vars
    /\ [][(flushChan' < flushChan \/ finalFlushes' > finalFlushes) =>
             bg = "select" /\ bg' = "flush"]_vars
    /\ [](data # NoData <=> bg = "write")

\* C15 witness: a flush is in conn.Write while a send has filled the buffer
\* again, its request is pending, and Close has signalled shutdown.
C15_Witness ==
    /\ bg = "write"
    /\ flushChan = 1
    /\ quitChan = "closed"
    /\ blen >= MaxBufferSize

\* C16: flushChan never holds more than one request; a tick or a send that
\* asks for a flush while one is pending completes with the slot as it was;
\* and the drain that serves a request received from flushChan takes every
\* line appended up to it and leaves the buffer empty.
C16_OnePendingFlush ==
    /\ [](flushChan \in {0, 1})
    /\ [][(flushChan = 1 /\ Tick) => flushChan' = 1 /\ bg' = "select"]_vars
    /\ [][\A t \in Callers :
             (pc[t] = "locked" /\ pc'[t] # "locked") =>
                 /\ pc'[t] = "idle"
                 /\ bufferLock' = "free"
                 /\ flushChan' = IF blen' >= MaxBufferSize THEN 1 ELSE flushChan]_vars
    /\ [][(bg = "locked" /\ ~final /\ bg' = "write") =>
             /\ blen' = 0
             /\ drained' = Len(appended)
             /\ data'.snap = Strip(Lines(drained + 1, Len(appended)))]_vars

\* C16 witness: two sends each left the buffer at or above maxBufferSize, so
\* that each called requestFlush, before the first drain; the slot is empty
\* again, the second request dropped, and the one flush has drained both lines.
C16_Witness ==
    /\ bg = "write"
    /\ ~final
    /\ flushChan = 0
    /\ writes = <<>>
    /\ drained = 2
    /\ Len(appended[1].line) >= MaxBufferSize

\* The lifecycle: running until Close closes quitChan, closing until the
\* flusher has ended, closed from then on.
Lifecycle ==
    IF quitChan = "open" THEN 0 ELSE IF bg # "done" THEN 1 ELSE 2

\* C17: the lifecycle never steps back, and it is closed only after Close has
\* signalled and the one final flush has run; once Close has signalled, the
\* flusher ends and the Close that signalled returns; and after the flusher
\* has ended it takes no tick and no flush request, drains nothing and
\* writes nothing.
C17_Lifecycle ==
    /\ [][Lifecycle' >= Lifecycle]_vars
    /\ [](/\ finalFlushes <= 1
          /\ Lifecycle = 0 => finalFlushes = 0
          /\ Lifecycle = 2 => finalFlushes = 1)
    /\ [](closeReturns > 0 => Lifecycle = 2)
    /\ (quitChan = "closed") ~> (bg = "done" /\ closeReturns = 1)
    /\ [][bg = "done" =>
             /\ UNCHANGED <<bg, final, data, drained, writes, finalFlushes>>
             /\ flushChan' >= flushChan
             /\ flushChan' # flushChan =>
                   \E t \in Callers : pc[t] = "locked" /\ pc'[t] = "idle"]_vars

\* C17 witness: the flusher has ended with a request still in the slot and
\* lines in the buffer, and Close has returned.
C17_Witness ==
    /\ bg = "done"
    /\ closeReturns = 1
    /\ flushChan = 1
    /\ blen > 0

\* C18: the connection is closed only when the flusher has ended, so no
\* conn.Write is in progress when it is closed and none is made after; the
\* step that closes it is the return of Close, whether c.conn.Close() failed
\* or not, and it calls the error handler exactly when the close failed and a
\* handler is set.
C18_CloseAfterFlusher ==
    /\ [](connClosed => bg = "done" /\ data = NoData)
    /\ [][connClosed => writes' = writes /\ connClosed']_vars
    /\ [][(connClosed' /\ ~connClosed) =>
             /\ bg = "done"
             /\ closeReturns' = closeReturns + 1
             /\ \E t \in Callers : pc[t] = "wait" /\ pc'[t] = "idle"
             /\ nhandled' = IF nfailed' > nfailed /\ errorHandler
                            THEN nhandled + 1 ELSE nhandled]_vars

\* C18 witness: Close has returned after c.conn.Close() failed (no conn.Write
\* was made, so the failure is the close's) and the handler was called for it.
C18_Witness ==
    /\ connClosed
    /\ bg = "done"
    /\ closeReturns = 1
    /\ errorHandler
    /\ nfailed = 1
    /\ nhandled = 1
    /\ writes = <<>>

\* C19: whenever no caller holds the buffer lock, the buffer is empty or ends
\* in "\n", and it is the lines of the sends completed since the last drain,
\* each ending in its one "\n"; so the byte a drain leaves out of the slice it
\* captures is a line terminator.
C19_BufferOfWholeLines ==
    /\ [](bufferLock \notin Callers =>
             /\ blen = 0 \/ arr[blen] = "\n"
             /\ buffer = Lines(drained + 1, Len(appended))
             /\ \A i \in (drained + 1)..Len(appended) :
                   /\ appended[i].line[Len(appended[i].line)] = "\n"
                   /\ NLines(appended[i].line) = 2)
    /\ [][(bg = "locked" /\ bg' = "write") =>
             /\ arr[blen] = "\n"
             /\ data'.snap \o <<"\n">> = buffer]_vars

\* C19 witness: the first drain has captured two lines without the terminator
\* of the second, and the lock is free again.
C19_Witness ==
    /\ bufferLock = "free"
    /\ bg = "write"
    /\ drained = 2
    /\ data.snap \o <<"\n">> = Lines(1, 2)

====
